---- MODULE Spec2Model ----
(***************************************************************************)
(* Ownership resolution and change splitting of depot_tools.               *)
(*                                                                         *)
(*   owners_client.py       OwnersClient: _owner_combinations,             *)
(*                          GetFilesApprovalStatus, SuggestOwners,         *)
(*                          BatchListOwners; DepotToolsClient:             *)
(*                          ListOwnersForFile, ValidateOwnersConfig,       *)
(*                          GetChangeApprovalStatus                        *)
(*   split_cl (tests only)  DirectoryTrie, ClusterFiles, CLInfo,           *)
(*                          ParseSplittings, LoadSplittingFromFile,        *)
(*                          UploadCl                                       *)
(*                                                                         *)
(* Each family of operations has its own specification.  For a function of *)
(* its arguments Init draws the arguments from bounded sets and one action *)
(* applies the operation and records the result; BatchListOwners is a pool *)
(* of threads, one action per step of a lookup task, and UploadCl is one   *)
(* action per statement that calls git or the upload command.              *)
(***************************************************************************)
EXTENDS Integers, Sequences, FiniteSets, TLC

VARIABLES
  pc,              \* which operation has run: "start" before any
  paths,           \* the `paths` argument (a list, repeats allowed)
  owners_by_path,  \* TestClient.owners_by_path: path -> ranked owner list
  approvers,       \* GetFilesApprovalStatus argument
  reviewers,       \* GetFilesApprovalStatus argument
  status,          \* GetFilesApprovalStatus result: path -> status
  suggested,       \* SuggestOwners result
  owners,          \* _owner_combinations argument: the owner list
  num_owners,      \* _owner_combinations argument: the combination size
  combos,          \* _owner_combinations result (the list it yields)
  files,           \* ClusterFiles argument: the changed files, as paths
  min_files,       \* ClusterFiles argument
  max_files,       \* ClusterFiles argument
  trie,            \* the DirectoryTrie built from `files`
  clusters,        \* ClusterFiles result: the list of Bins
  cl_infos,        \* a split plan: the list of CLInfo
  lines,           \* the text of a plan file, line by line
  parsed,          \* ParseSplittings result
  files_on_disk,   \* LoadSplittingFromFile argument: the expected files
  loaded,          \* LoadSplittingFromFile result
  owners_files,    \* the OWNERS file of each directory of the checkout
  change_files,    \* the files of the change's current revision
  validated,       \* ValidateOwnersConfig outcome
  distance_by_owner, \* all_possible_owners result, in insertion order
  jitter,          \* the random.random() drawn for each owner
  listed,          \* DepotToolsClient.ListOwnersForFile result
  task,            \* BatchListOwners: where the lookup task of each path is
  cache,           \* the directories whose rules the database has loaded
  results,         \* the (path, owners) pairs the pool has yielded so far
  batch,           \* BatchListOwners result
  data,            \* the change as gerrit_util.GetChange returns it
  git_branches,    \* git_common.branches(): the local branches
  upload_files,    \* UploadCl argument: the (action, file) pairs of the CL
  git_run,         \* the git_common.run calls made so far, in order
  cmd_upload,      \* the cmd_upload calls made so far, in order
  reordered,       \* a second `paths` argument: the same paths, reordered
  suggested_reordered \* SuggestOwners result for `reordered`

ownersVars == <<paths, owners_by_path, approvers, reviewers, status,
                suggested, owners, num_owners, combos>>

clusterVars == <<files, min_files, max_files, trie, clusters>>

planVars == <<cl_infos, lines, parsed, files_on_disk, loaded>>

dbVars == <<owners_files, change_files, validated, distance_by_owner, jitter,
            listed, task, cache, results, batch>>

validateVars == <<owners_files, change_files, validated>>

listVars == <<distance_by_owner, jitter, listed>>

batchVars == <<task, cache, results, batch>>

remoteVars == <<data, git_branches, upload_files, git_run, cmd_upload>>

reorderVars == <<reordered, suggested_reordered>>

vars == <<pc, ownersVars, clusterVars, planVars, dbVars, remoteVars,
          reorderVars>>

(***************************************************************************)
(* Generic helpers                                                         *)
(***************************************************************************)
Range(s) == {s[i] : i \in DOMAIN s}

Min(S) == CHOOSE x \in S : \A y \in S : x <= y

Max(S) == CHOOSE x \in S : \A y \in S : x >= y

\* Python reversed(seq)
Reversed(s) == [i \in 1..Len(s) |-> s[Len(s) + 1 - i]]

\* 1-based position of the first occurrence of x in s (x must occur)
IndexOf(x, s) == Min({i \in DOMAIN s : s[i] = x})

\* Sequences over S of length at most n
SeqUpTo(S, n) == UNION {[1..k -> S] : k \in 0..n}

NoRepeat(s) == \A i, j \in DOMAIN s : i # j => s[i] # s[j]

(***************************************************************************)
(* owners_client.py                                                        *)
(***************************************************************************)
APPROVED == "APPROVED"

PENDING == "PENDING"

INSUFFICIENT_REVIEWERS == "INSUFFICIENT_REVIEWERS"

\* owners.EVERYONE, the wildcard owner an OWNERS file spells '*'
EVERYONE == "*"

\* TestClient.ListOwnersForFile: the ranking is looked up, best owner first
ListOwnersForFile(path) == owners_by_path[path]

\* itertools.combinations(s, k): the k-subsequences of s, in lexicographic
\* order of the positions they take
RECURSIVE Combinations(_, _)
Combinations(s, k) ==
  IF k = 0 THEN << <<>> >>
  ELSE IF Len(s) < k THEN <<>>
  ELSE LET rest == Tail(s)
           with == Combinations(rest, k - 1)
       IN [i \in 1..Len(with) |-> <<Head(s)>> \o with[i]]
          \o Combinations(rest, k)

\* _owner_combinations without the inner reversed(): a plausible slip
OwnerCombinationsNoInnerReverse(os, k) ==
  Reversed(Combinations(os, k))

\* def _owner_combinations(owners, num_owners):
\*   return reversed(list(itertools.combinations(reversed(owners), num_owners)))
_owner_combinations(os, k) ==
  Reversed(Combinations(Reversed(os), k))

\* GetFilesApprovalStatus testing the reviewers before the approvers
GetFilesApprovalStatusReviewersFirst(ps, apprs, revs) ==
  [path \in Range(ps) |->
     LET path_owners == Range(ListOwnersForFile(path))
     IN IF path_owners \cap revs # {} THEN PENDING
        ELSE IF path_owners \cap apprs # {} THEN APPROVED
        ELSE INSUFFICIENT_REVIEWERS]

\* A path is approved when all of its owners are approvers
GetFilesApprovalStatusAllOwners(ps, apprs, revs) ==
  [path \in Range(ps) |->
     LET path_owners == Range(ListOwnersForFile(path))
     IN IF path_owners \subseteq apprs THEN APPROVED
        ELSE IF path_owners \cap apprs # {} THEN APPROVED
        ELSE IF path_owners \cap revs # {} THEN PENDING
        ELSE INSUFFICIENT_REVIEWERS]

\* approvers = set(approvers); reviewers = set(reviewers); one status per path
GetFilesApprovalStatus(ps, apprs, revs) ==
  [path \in Range(ps) |->
     LET path_owners == Range(ListOwnersForFile(path))
     IN IF path_owners \cap apprs # {} THEN APPROVED
        ELSE IF path_owners \cap revs # {} THEN PENDING
        ELSE INSUFFICIENT_REVIEWERS]

\* Keys of paths_by_owner / score_by_owner in dict insertion order: owners in
\* the order the double loop over paths and rankings first meets them
RECURSIVE AppendNew(_, _)
AppendNew(acc, s) ==
  IF s = <<>> THEN acc
  ELSE AppendNew(IF Head(s) \in Range(acc) THEN acc ELSE Append(acc, Head(s)),
                 Tail(s))

RECURSIVE InsertionOrder(_, _)
InsertionOrder(acc, ps) ==
  IF ps = <<>> THEN acc
  ELSE InsertionOrder(AppendNew(acc, ListOwnersForFile(Head(ps))), Tail(ps))

\* paths_by_owner.setdefault(owner, set()).add(path)
paths_by_owner(ps) ==
  [o \in Range(InsertionOrder(<<>>, ps)) |->
     {ps[j] : j \in {i \in DOMAIN ps : o \in Range(ListOwnersForFile(ps[i]))}}]

\* score_by_owner[owner] = min(i, score_by_owner.get(owner, i)), i from 0
score_by_owner(ps) ==
  [o \in Range(InsertionOrder(<<>>, ps)) |->
     Min({IndexOf(o, ListOwnersForFile(ps[j])) - 1 :
            j \in {i \in DOMAIN ps : o \in Range(ListOwnersForFile(ps[i]))}})]

\* sorted(score_by_owner, key=...): stable, so owners of equal score keep
\* their insertion order
RECURSIVE SortedFrom(_, _, _)
SortedFrom(s, order, score) ==
  IF \A i \in DOMAIN order : score[order[i]] < s THEN <<>>
  ELSE SelectSeq(order, LAMBDA o : score[o] = s)
       \o SortedFrom(s + 1, order, score)

\* The owners in the order they were met, not sorted by score
UnsortedOwners(ps) == InsertionOrder(<<>>, ps)

SortedOwners(ps) == SortedFrom(0, InsertionOrder(<<>>, ps), score_by_owner(ps))

\* covered = set.union(*(paths_by_owner[o] for o in selected))
Covered(selected, pbo) == UNION {pbo[selected[i]] : i \in DOMAIN selected}

\* The value of a call that falls off the end of the function
None == [none |-> TRUE, selected |-> <<>>]

Return(selected) == [none |-> FALSE, selected |-> selected]

\* range(2, len(owners)) starts here
FirstNumOwners == 2

\* The search returning the last covering combination of a size, not the first
RECURSIVE SearchLastCovering(_, _, _)
SearchLastCovering(n, os, ps) ==
  IF n >= Len(os) THEN None
  ELSE LET cs == _owner_combinations(os, n)
           pbo == paths_by_owner(ps)
           hit == {i \in DOMAIN cs : Cardinality(Covered(cs[i], pbo)) = Len(ps)}
       IN IF hit # {} THEN Return(cs[Max(hit)])
          ELSE SearchLastCovering(n + 1, os, ps)

\* The search returning the first combination of the first size, covering or
\* not
SearchFirstCombination(n, os, ps) ==
  IF n >= Len(os) THEN None
  ELSE Return(_owner_combinations(os, n)[1])

\* for num_owners in range(2, len(owners)):
\*   for selected in _owner_combinations(owners, num_owners):
\*     if len(covered) == len(paths): return selected
RECURSIVE SearchCombinations(_, _, _)
SearchCombinations(n, os, ps) ==
  IF n >= Len(os) THEN None
  ELSE LET cs == _owner_combinations(os, n)
           pbo == paths_by_owner(ps)
           hit == {i \in DOMAIN cs : Cardinality(Covered(cs[i], pbo)) = Len(ps)}
       IN IF hit # {} THEN Return(cs[Min(hit)])
          ELSE SearchCombinations(n + 1, os, ps)

\* SuggestOwners without the early return for fewer than two owners
SuggestOwnersNoEarlyReturn(ps) ==
  SearchCombinations(FirstNumOwners, SortedOwners(ps), ps)

\* SuggestOwners with the search starting at single owners
SuggestOwnersFromOne(ps) ==
  LET os == SortedOwners(ps)
  IN IF Len(os) < 2 THEN Return(os)
     ELSE SearchCombinations(1, os, ps)

\* OwnersClient.SuggestOwners
SuggestOwners(ps) ==
  LET os == SortedOwners(ps)
  IN IF Len(os) < 2 THEN Return(os)
     ELSE SearchCombinations(FirstNumOwners, os, ps)

(***************************************************************************)
(* Arguments of the owners operations                                      *)
(***************************************************************************)
Owners == {"alice", "bob", "chris", "dave"}

\* Paths are keys only, so a request names its distinct paths in the order
\* they first appear in it: the first is "a", the next new one "b", then
\* "c".  Every order of rankings is still drawn, through owners_by_path.
PathOrder == <<"a", "b", "c">>

PathNames == Range(PathOrder)

\* longest ranking ListOwnersForFile returns
MaxRank == 2

\* longest `paths` argument
MaxPaths == 3

RankingsOver(S) == {r \in SeqUpTo(S, MaxRank) : NoRepeat(r)}

NamedInOrder(ps) ==
  \A i \in DOMAIN ps :
    IndexOf(ps[i], PathOrder)
      <= 1 + Max({0} \cup {IndexOf(ps[j], PathOrder) : j \in 1..(i - 1)})

Requests == {ps \in SeqUpTo(PathNames, MaxPaths) : NamedInOrder(ps)}

IdleCluster ==
  /\ files = <<>>
  /\ min_files = 0
  /\ max_files = 0
  /\ trie = <<>>
  /\ clusters = <<>>

IdleOwners ==
  /\ paths = <<>>
  /\ owners_by_path = <<>>
  /\ approvers = {}
  /\ reviewers = {}
  /\ status = <<>>
  /\ suggested = None
  /\ owners = <<>>
  /\ num_owners = 0
  /\ combos = <<>>

IdlePlan ==
  /\ cl_infos = <<>>
  /\ lines = <<>>
  /\ parsed = <<>>
  /\ files_on_disk = {}
  /\ loaded = <<>>

IdleDb ==
  /\ owners_files = <<>>
  /\ change_files = {}
  /\ validated = "none"
  /\ distance_by_owner = <<>>
  /\ jitter = <<>>
  /\ listed = <<>>
  /\ task = <<>>
  /\ cache = {}
  /\ results = <<>>
  /\ batch = <<>>

IdleRemote ==
  /\ data = <<>>
  /\ git_branches = {}
  /\ upload_files = <<>>
  /\ git_run = <<>>
  /\ cmd_upload = <<>>

IdleReorder ==
  /\ reordered = <<>>
  /\ suggested_reordered = None

IdleBatch ==
  /\ task = <<>>
  /\ cache = {}
  /\ results = <<>>
  /\ batch = <<>>

Idle ==
  /\ IdleCluster
  /\ IdlePlan
  /\ IdleDb
  /\ approvers = {}
  /\ reviewers = {}
  /\ status = <<>>
  /\ suggested = None
  /\ owners = <<>>
  /\ num_owners = 0
  /\ combos = <<>>

\* ---- SuggestOwners
InitSuggest ==
  /\ pc = "start"
  /\ IdleReorder
  /\ IdleRemote
  /\ paths \in Requests
  /\ owners_by_path \in [Range(paths) -> RankingsOver(Owners)]
  /\ Idle

DoSuggestOwners ==
  /\ pc = "start"
  /\ pc' = "SuggestOwners"
  /\ suggested' = SuggestOwners(paths)
  /\ UNCHANGED <<reorderVars, remoteVars, paths, owners_by_path, approvers, reviewers, status, owners,
                 num_owners, combos, clusterVars, planVars, dbVars>>

NextSuggest == DoSuggestOwners

SpecSuggest == InitSuggest /\ [][NextSuggest]_vars

\* ---- SuggestOwners called twice, with the same distinct paths in two
\* different orders
\* the path lists that are permutations of ps
Reorderings(ps) ==
  {[i \in DOMAIN ps |-> ps[f[i]]] : f \in Permutations(DOMAIN ps)}

InitReorder ==
  /\ pc = "start"
  /\ IdleRemote
  /\ paths \in {ps \in Requests : NoRepeat(ps)}
  /\ reordered \in Reorderings(paths) \ {paths}
  /\ suggested_reordered = None
  /\ owners_by_path \in [Range(paths) -> RankingsOver(Owners)]
  /\ Idle

DoSuggestOwnersTwice ==
  /\ pc = "start"
  /\ pc' = "SuggestOwnersTwice"
  /\ suggested' = SuggestOwners(paths)
  /\ suggested_reordered' = SuggestOwners(reordered)
  /\ UNCHANGED <<reordered, remoteVars, paths, owners_by_path, approvers,
                 reviewers, status, owners, num_owners, combos, clusterVars,
                 planVars, dbVars>>

NextReorder == DoSuggestOwnersTwice

SpecReorder == InitReorder /\ [][NextReorder]_vars

\* ---- _owner_combinations
InitCombinations ==
  /\ pc = "start"
  /\ IdleReorder
  /\ IdleRemote
  /\ IdleCluster
  /\ IdlePlan
  /\ IdleDb
  /\ paths = <<>>
  /\ owners_by_path = <<>>
  /\ approvers = {}
  /\ reviewers = {}
  /\ status = <<>>
  /\ suggested = None
  /\ owners \in {s \in SeqUpTo(Owners, Cardinality(Owners)) : NoRepeat(s)}
  /\ num_owners \in 0..(Len(owners) + 1)
  /\ combos = <<>>

DoOwnerCombinations ==
  /\ pc = "start"
  /\ pc' = "_owner_combinations"
  /\ combos' = _owner_combinations(owners, num_owners)
  /\ UNCHANGED <<reorderVars, remoteVars, paths, owners_by_path, approvers, reviewers, status,
                 suggested, owners, num_owners, clusterVars, planVars, dbVars>>

NextCombinations == DoOwnerCombinations

SpecCombinations == InitCombinations /\ [][NextCombinations]_vars

\* ---- GetFilesApprovalStatus
\* accounts that review and approve changes
Accounts == {"alice", "bob"}

\* what an OWNERS file can list: accounts and the wildcard
OwnersEntries == Accounts \cup {EVERYONE}

InitApproval ==
  /\ pc = "start"
  /\ IdleReorder
  /\ IdleRemote
  /\ paths \in Requests
  /\ owners_by_path \in [Range(paths) -> RankingsOver(OwnersEntries)]
  /\ Idle

DoGetFilesApprovalStatus ==
  /\ pc = "start"
  /\ pc' = "GetFilesApprovalStatus"
  /\ \E apprs \in SUBSET Accounts, revs \in SUBSET Accounts :
       /\ approvers' = apprs
       /\ reviewers' = revs
       /\ status' = GetFilesApprovalStatus(paths, apprs, revs)
  /\ UNCHANGED <<reorderVars, remoteVars, paths, owners_by_path, suggested, owners, num_owners, combos,
                 clusterVars, planVars, dbVars>>

NextApproval == DoGetFilesApprovalStatus

SpecApproval == InitApproval /\ [][NextApproval]_vars

(***************************************************************************)
(* split_cl: DirectoryTrie and ClusterFiles.  A path is the sequence of    *)
(* its components (file.split(os.path.sep)); a prefix is the sequence of   *)
(* directory names from the root, the root's being empty.                  *)
(***************************************************************************)
Last(s) == s[Len(s)]

\* math.ceil(a / b)
CeilDiv(a, b) == (a + b - 1) \div b

RECURSIVE Flatten(_)
Flatten(ss) == IF ss = <<>> THEN <<>> ELSE Head(ss) \o Flatten(Tail(ss))

\* A folder handing its left-over files to every folder above it, the root
\* and the top-level directories included
FolderHasParentAlways(prefix) == TRUE

\* A folder has a parent whenever it is not the root
FolderHasParentBelowRoot(prefix) == Len(prefix) > 0

\* The root and each top-level directory have no parent to hand files to
FolderHasParent(prefix) == Len(prefix) > 1

\* An empty DirectoryTrie node
DirectoryTrie(prefix) ==
  [prefix |-> prefix,
   files |-> <<>>,
   subdirectories |-> <<>>,
   has_parent |-> FolderHasParent(prefix)]

\* AddFile: walk or create one node per directory of `path`, and keep the
\* file, with its whole path, in the node of its directory
RECURSIVE AddFile(_, _)
AddFile(node, path) ==
  IF Len(path) = 1
  THEN [node EXCEPT !.files = Append(@, node.prefix \o path)]
  ELSE LET directory == Head(path)
           known == {i \in DOMAIN node.subdirectories :
                       Last(node.subdirectories[i].prefix) = directory}
       IN IF known = {}
          THEN [node EXCEPT !.subdirectories =
                  Append(@, AddFile(DirectoryTrie(node.prefix \o <<directory>>),
                                    Tail(path)))]
          ELSE [node EXCEPT !.subdirectories[Min(known)] =
                  AddFile(@, Tail(path))]

RECURSIVE AddFiles(_, _)
AddFiles(node, ps) ==
  IF ps = <<>> THEN node ELSE AddFiles(AddFile(node, Head(ps)), Tail(ps))

\* ToList: every file of the trie
RECURSIVE ToList(_)
ToList(node) ==
  node.files
    \o Flatten([i \in DOMAIN node.subdirectories |->
                  ToList(node.subdirectories[i])])

Bin(prefixes, fs) == [prefixes |-> prefixes, files |-> fs]

TotalFiles(bins) == Len(Flatten([i \in DOMAIN bins |-> bins[i].files]))

\* sorted(bins, key=len(files)): stable, smallest first, sizes n..top
RECURSIVE SortBySize(_, _, _)
SortBySize(bins, n, top) ==
  IF n > top THEN <<>>
  ELSE SelectSeq(bins, LAMBDA b : Len(b.files) = n)
       \o SortBySize(bins, n + 1, top)

\* sorted(bins, key=-len(files)): stable, largest first, sizes n down to 0
RECURSIVE SortBySizeDecreasing(_, _)
SortBySizeDecreasing(bins, n) ==
  IF n < 0 THEN <<>>
  ELSE SelectSeq(bins, LAMBDA b : Len(b.files) = n)
       \o SortBySizeDecreasing(bins, n - 1)

\* A group of files too large for any bin, cut into bins of `size` files
RECURSIVE Chunks(_, _)
Chunks(item, size) ==
  IF item.files = <<>> THEN <<>>
  ELSE IF Len(item.files) <= size THEN <<item>>
  ELSE <<Bin(item.prefixes, SubSeq(item.files, 1, size))>>
       \o Chunks(Bin(item.prefixes,
                     SubSeq(item.files, size + 1, Len(item.files))), size)

\* Each group goes to the emptiest bin, kept first; a group that does not
\* fit there opens new bins
RECURSIVE PackInto(_, _, _, _)
PackInto(bins, todo, max_size, avg) ==
  IF todo = <<>> THEN bins
  ELSE LET item == Head(todo)
           b == bins[1]
           placed ==
             IF Len(b.files) + Len(item.files) <= max_size
             THEN [bins EXCEPT ![1] = Bin(b.prefixes \o item.prefixes,
                                          b.files \o item.files)]
             ELSE IF Len(item.files) > max_size
             THEN bins \o Chunks(item, avg)
             ELSE Append(bins, item)
       IN PackInto(SortBySize(placed, 0, TotalFiles(placed)), Tail(todo),
                   max_size, avg)

\* [x] * n
RECURSIVE Repeat(_, _)
Repeat(x, n) == IF n = 0 THEN <<>> ELSE <<x>> \o Repeat(x, n - 1)

\* PackFiles keeping a group larger than max_size whole
PackFilesWhole(max_size, files_to_pack) == files_to_pack

\* PackFiles: spread the groups of a pool of more than max_size files over
\* as few bins of at most max_size files as it can
PackFiles(max_size, files_to_pack) ==
  LET total == TotalFiles(files_to_pack)
      needed == CeilDiv(total, max_size)
      avg == CeilDiv(total, needed)
      packed == PackInto(Repeat(Bin(<<>>, <<>>), needed),
                         SortBySizeDecreasing(files_to_pack, total),
                         max_size, avg)
  IN SelectSeq(packed, LAMBDA b : b.files # <<>>)

\* Every pool of a directory with a parent is handed up, whatever its size
HandsUpAlways(n, mn, has_parent) == has_parent

\* a pool below min_files is handed to the parent directory, if there is one
HandsUp(n, mn, has_parent) == n < mn /\ has_parent

\* ClusterDirectory: post-order over the trie.  Returns the bins emitted in
\* the subtree, the directory's pending pool (its direct files and what its
\* subdirectories handed up, one group per origin) and the files the
\* directory hands up in turn.
RECURSIVE ClusterDirectory(_, _, _)
ClusterDirectory(current_dir, mn, mx) ==
  LET subs == [i \in DOMAIN current_dir.subdirectories |->
                 ClusterDirectory(current_dir.subdirectories[i], mn, mx)]
      below == Flatten([i \in DOMAIN subs |-> subs[i].clusters])
      direct == IF current_dir.files = <<>> THEN <<>>
                ELSE <<Bin(<<current_dir.prefix>>, current_dir.files)>>
      handed == Flatten([i \in DOMAIN subs |->
                  IF subs[i].unclustered = <<>> THEN <<>>
                  ELSE <<Bin(<<current_dir.subdirectories[i].prefix>>,
                             subs[i].unclustered)>>])
      pool == direct \o handed
      names == Flatten([i \in DOMAIN pool |-> pool[i].files])
  IN IF names = <<>>
     THEN [clusters |-> below, pool |-> pool, unclustered |-> <<>>]
     ELSE IF HandsUp(Len(names), mn, current_dir.has_parent)
     THEN [clusters |-> below, pool |-> pool, unclustered |-> names]
     ELSE IF Len(names) <= mx
     THEN [clusters |-> Append(below, Bin(<<current_dir.prefix>>, names)),
           pool |-> pool, unclustered |-> <<>>]
     ELSE [clusters |-> below \o PackFiles(mx, pool),
           pool |-> pool, unclustered |-> <<>>]

\* ClusterFiles(files, min_files, max_files)
ClusterFiles(fs, mn, mx) ==
  ClusterDirectory(AddFiles(DirectoryTrie(<<>>), fs), mn, mx).clusters

(***************************************************************************)
(* Arguments of the clustering                                             *)
(***************************************************************************)
\* The changed files a run can be given, in the order the SCM lists them
Catalog ==
  << <<"a", "b", "c.cc">>, <<"a", "b", "d.h">>, <<"a", "b", "q", "r.cc">>,
     <<"a", "b", "x.cc">>, <<"a", "e", "f", "g", "h.hpp">>, <<"a", "l.cpp">>,
     <<"a", "n.cpp">>, <<"i", "j", "k.cc">>, <<"i", "l", "m.cc">>, <<"top.gn">>, <<"z.gn">> >>

\* largest min_files and max_files
MaxClusterSize == 3

InitCluster ==
  /\ pc = "start"
  /\ IdleReorder
  /\ IdleRemote
  /\ \E chosen \in SUBSET Range(Catalog) :
       files = SelectSeq(Catalog, LAMBDA f : f \in chosen)
  /\ min_files \in 1..MaxClusterSize
  /\ max_files \in min_files..MaxClusterSize
  /\ trie = <<>>
  /\ clusters = <<>>
  /\ IdleOwners
  /\ IdlePlan
  /\ IdleDb

DoAddFiles ==
  /\ pc = "start"
  /\ pc' = "AddFiles"
  /\ trie' = AddFiles(DirectoryTrie(<<>>), files)
  /\ UNCHANGED <<reorderVars, remoteVars, files, min_files, max_files, clusters, ownersVars, planVars, dbVars>>

DoClusterFiles ==
  /\ pc = "start"
  /\ pc' = "ClusterFiles"
  /\ trie' = AddFiles(DirectoryTrie(<<>>), files)
  /\ clusters' = ClusterFiles(files, min_files, max_files)
  /\ UNCHANGED <<reorderVars, remoteVars, files, min_files, max_files, ownersVars, planVars, dbVars>>

NextCluster == DoAddFiles \/ DoClusterFiles

SpecCluster == InitCluster /\ [][NextCluster]_vars

(***************************************************************************)
(* split_cl: the plan file.  A line of text is the sequence of its fields; *)
(* the empty sequence is a blank line.                                     *)
(***************************************************************************)
CLInfo(rs, description, fs) ==
  [reviewers |-> rs, description |-> description, files |-> fs]

Blank == <<>>

CommentMark == "#"

ReviewersTag == "Reviewers:"

DescriptionTag == "Description:"

Indent == "  "

\* the actions of a file entry: Added, Modified, Deleted
Actions == {"A", "M", "D"}

RECURSIVE FileLines(_)
FileLines(fs) ==
  IF fs = <<>> THEN <<>>
  ELSE << <<Indent, Head(fs)[1], Head(fs)[2]>> >> \o FileLines(Tail(fs))

\* CLInfo.FormatForPrinting: the reviewer line, the description line and
\* one indented line per file
FormatForPrinting(info) ==
  << <<ReviewersTag>> \o info.reviewers, <<DescriptionTag, info.description>> >>
    \o FileLines(info.files)

\* The blocks run together, with no blank line between them
RECURSIVE JoinBlocksNoSeparator(_)
JoinBlocksNoSeparator(infos) ==
  IF infos = <<>> THEN <<>>
  ELSE FormatForPrinting(Head(infos)) \o JoinBlocksNoSeparator(Tail(infos))

\* "\n\n".join(blocks): a blank line between consecutive blocks
RECURSIVE JoinBlocks(_)
JoinBlocks(infos) ==
  IF infos = <<>> THEN <<>>
  ELSE IF Len(infos) = 1 THEN FormatForPrinting(Head(infos))
  ELSE FormatForPrinting(Head(infos)) \o <<Blank>> \o JoinBlocks(Tail(infos))

\* The comment lines a saved plan starts with, and the blank lines after them
Preamble ==
  << <<CommentMark, "CLs in this file must have the following format:">>,
     <<CommentMark, "a reviewer line, a description line, one line per file">>,
     Blank, Blank >>

\* SaveSplittingToFile: what is written to the plan file
SaveSplitting(infos) == Preamble \o JoinBlocks(infos)

IsComment(line) == line # <<>> /\ line[1] = CommentMark

\* The blocks of a text: maximal runs of lines between blank lines
RECURSIVE SplitBlocks(_, _)
SplitBlocks(ls, current) ==
  IF ls = <<>> THEN (IF current = <<>> THEN <<>> ELSE <<current>>)
  ELSE IF Head(ls) = Blank
  THEN (IF current = <<>> THEN <<>> ELSE <<current>>)
       \o SplitBlocks(Tail(ls), <<>>)
  ELSE SplitBlocks(Tail(ls), Append(current, Head(ls)))

IsFileLine(line) ==
  Len(line) = 3 /\ line[1] = Indent /\ line[2] \in Actions

WellFormedBlock(block) ==
  /\ Len(block) >= 2
  /\ block[1] # <<>> /\ block[1][1] = ReviewersTag
  /\ Len(block[2]) = 2 /\ block[2][1] = DescriptionTag
  /\ \A i \in 3..Len(block) : IsFileLine(block[i])

RECURSIVE ParseFileLines(_)
ParseFileLines(ls) ==
  IF ls = <<>> THEN <<>>
  ELSE << <<Head(ls)[2], Head(ls)[3]>> >> \o ParseFileLines(Tail(ls))

ParseBlock(block) ==
  CLInfo(Tail(block[1]), block[2][2], ParseFileLines(Tail(Tail(block))))

RECURSIVE ParseBlocks(_)
ParseBlocks(blocks) ==
  IF blocks = <<>> THEN <<>>
  ELSE <<ParseBlock(Head(blocks))>> \o ParseBlocks(Tail(blocks))

\* raise ClSplitParseError
ClSplitParseError == [error |-> TRUE, cl_infos |-> <<>>, warnings |-> <<>>]

Loaded(infos, warnings) ==
  [error |-> FALSE, cl_infos |-> infos, warnings |-> warnings]

\* ParseSplittings: comment lines are ignored, each block gives a CLInfo
ParseSplittings(ls) ==
  LET blocks == SplitBlocks(SelectSeq(ls, LAMBDA l : ~IsComment(l)), <<>>)
  IN IF \E i \in DOMAIN blocks : ~WellFormedBlock(blocks[i])
     THEN ClSplitParseError
     ELSE Loaded(ParseBlocks(blocks), <<>>)

\* reviewers that look like an email address
Emails == {"a@example.com", "b@example.com"}

LooksLikeEmail(reviewer) == reviewer \in Emails

\* the reviewers of a plan, block after block
AllReviewers(infos) == Flatten([i \in DOMAIN infos |-> infos[i].reviewers])

\* the file entries of a plan
PlanFiles(infos) == UNION {Range(infos[i].files) : i \in DOMAIN infos}

InTwoBlocks(infos) ==
  \E i, j \in DOMAIN infos :
    i # j /\ Range(infos[i].files) \cap Range(infos[j].files) # {}

\* A validation that compares the paths of the entries and not their actions
ValidateSplittingByPath(infos, expected) ==
  IF InTwoBlocks(infos) THEN ClSplitParseError
  ELSE IF \E f \in PlanFiles(infos) : \A e \in expected : e[2] # f[2]
  THEN ClSplitParseError
  ELSE Loaded(infos, <<>>)

\* A validation that refuses a plan with a reviewer that is not an email
ValidateSplittingStrictReviewers(infos, expected) ==
  IF InTwoBlocks(infos) THEN ClSplitParseError
  ELSE IF ~(PlanFiles(infos) \subseteq expected) THEN ClSplitParseError
  ELSE IF \E i \in DOMAIN AllReviewers(infos) :
            ~LooksLikeEmail(AllReviewers(infos)[i])
  THEN ClSplitParseError
  ELSE Loaded(infos, IF infos = <<>> THEN <<"empty plan">> ELSE <<>>)

\* The cross-validation of a parsed plan against the expected files
ValidateSplitting(infos, expected) ==
  IF InTwoBlocks(infos) THEN ClSplitParseError
  ELSE IF ~(PlanFiles(infos) \subseteq expected) THEN ClSplitParseError
  ELSE Loaded(infos,
         (IF infos = <<>> THEN <<"empty plan">> ELSE <<>>)
         \o SelectSeq(AllReviewers(infos), LAMBDA r : ~LooksLikeEmail(r))
         \o (IF expected \ PlanFiles(infos) # {} THEN <<"missing files">>
             ELSE <<>>))

\* LoadSplittingFromFile(path, files_on_disk), `ls` the lines of the file
LoadSplittingFromFile(ls, expected) ==
  LET p == ParseSplittings(ls)
  IN IF p.error THEN ClSplitParseError
     ELSE ValidateSplitting(p.cl_infos, expected)

(***************************************************************************)
(* Arguments of the plan operations                                        *)
(***************************************************************************)
\* the file entries a plan can name: one path under two actions, and another
Entries == {<<"M", "x.cc">>, <<"D", "x.cc">>, <<"M", "y.h">>}

\* reviewer lists and descriptions of the blocks
Headers ==
  { [reviewers |-> <<>>, description |-> "foo"],
    [reviewers |-> <<"a@example.com">>, description |-> "bar"],
    [reviewers |-> <<"b@example.com", "nobody">>,
     description |-> "['foo', 'bar']"] }

FileLists == {fs \in SeqUpTo(Entries, Cardinality(Entries)) : NoRepeat(fs)}

CLInfos == {CLInfo(h.reviewers, h.description, fs) : h \in Headers,
                                                     fs \in FileLists}

\* most CLInfo blocks in a plan
MaxCLs == 2

\* the SCM lists each path once, under one action
OnePerPath(S) == \A e, f \in S : e[2] = f[2] => e = f

InitPlan ==
  /\ pc = "start"
  /\ IdleReorder
  /\ IdleRemote
  /\ cl_infos \in SeqUpTo(CLInfos, MaxCLs)
  /\ lines = <<>>
  /\ parsed = <<>>
  /\ files_on_disk = {}
  /\ loaded = <<>>
  /\ IdleOwners
  /\ IdleCluster
  /\ IdleDb

\* the plan is saved and its file parsed again
DoSaveAndParse ==
  /\ pc = "start"
  /\ pc' = "ParseSplittings"
  /\ lines' = SaveSplitting(cl_infos)
  /\ parsed' = ParseSplittings(SaveSplitting(cl_infos))
  /\ UNCHANGED <<reorderVars, remoteVars, cl_infos, files_on_disk, loaded, ownersVars, clusterVars, dbVars>>

\* the saved plan is loaded against a set of expected files
DoLoadSplittingFromFile ==
  /\ pc = "start"
  /\ pc' = "LoadSplittingFromFile"
  /\ lines' = SaveSplitting(cl_infos)
  /\ \E expected \in {S \in SUBSET Entries : OnePerPath(S)} :
       /\ files_on_disk' = expected
       /\ loaded' = LoadSplittingFromFile(SaveSplitting(cl_infos), expected)
  /\ UNCHANGED <<reorderVars, remoteVars, cl_infos, parsed, ownersVars, clusterVars, dbVars>>

NextPlan == DoSaveAndParse \/ DoLoadSplittingFromFile

SpecPlan == InitPlan /\ [][NextPlan]_vars

(***************************************************************************)
(* split_cl: the plan built from the bins of ClusterFiles                  *)
(***************************************************************************)
\* the reviewers suggested for a bin, by the top directory of its first file
\* (MockSuggestOwners answers by the directory of paths[0])
BinReviewers(bin) ==
  LET f == bin.files[1]
  IN IF Len(f) > 1 /\ f[1] = "i" THEN <<"b@example.com">>
     ELSE <<"a@example.com">>

\* Bins with the same reviewers share one CLInfo, as the groups of
\* SelectReviewersForFiles do
RECURSIVE MergeByReviewers(_, _)
MergeByReviewers(infos, todo) ==
  IF todo = <<>> THEN infos
  ELSE LET b == Head(todo)
           same == {i \in DOMAIN infos : infos[i].reviewers = BinReviewers(b)}
       IN IF same = {}
          THEN MergeByReviewers(
                 Append(infos, CLInfo(BinReviewers(b), b.prefixes, b.files)),
                 Tail(todo))
          ELSE MergeByReviewers(
                 [i \in DOMAIN infos |->
                    IF i \in same
                    THEN CLInfo(infos[i].reviewers,
                                infos[i].description \o b.prefixes,
                                infos[i].files \o b.files)
                    ELSE infos[i]],
                 Tail(todo))

ComposePlanByReviewers(bins) == MergeByReviewers(<<>>, bins)

\* One CLInfo per Bin, in the order of the bins: the suggested reviewers, the
\* directories of the bin for the description, and the files of the bin
ComposePlan(bins) ==
  [i \in DOMAIN bins |->
     CLInfo(BinReviewers(bins[i]), bins[i].prefixes, bins[i].files)]

DoComposePlan ==
  /\ pc = "start"
  /\ pc' = "ComposePlan"
  /\ trie' = AddFiles(DirectoryTrie(<<>>), files)
  /\ clusters' = ClusterFiles(files, min_files, max_files)
  /\ cl_infos' = ComposePlan(ClusterFiles(files, min_files, max_files))
  /\ UNCHANGED <<reorderVars, remoteVars, files, min_files, max_files, lines, parsed, files_on_disk,
                 loaded, ownersVars, dbVars>>

NextCompose == DoComposePlan

SpecCompose == InitCluster /\ [][NextCompose]_vars

(***************************************************************************)
(* owners_client: DepotToolsClient.  A path is the sequence of its         *)
(* components; the OWNERS file of a directory is absent, valid, valid with *)
(* "set noparent", or invalid (a line that is no directive).               *)
(***************************************************************************)
InvalidOwnersConfig == "InvalidOwnersConfig"

Basename(path) == Last(path)

Dirname(path) == SubSeq(path, 1, Len(path) - 1)

\* owners.Database reads the OWNERS file of a directory and of its ancestors,
\* up to the root or to a file with "set noparent"; a file that does not
\* parse raises
RECURSIVE ReadOwnersRaises(_, _)
ReadOwnersRaises(db, dirpath) ==
  IF db[dirpath] = "invalid" THEN TRUE
  ELSE IF db[dirpath] = "noparent" \/ dirpath = <<>> THEN FALSE
  ELSE ReadOwnersRaises(db, Dirname(dirpath))

\* db.load_data_needed_for(files) raises
LoadDataNeededForRaises(db, fs) ==
  \E f \in fs : ReadOwnersRaises(db, Dirname(f))

\* The data is loaded for every file of the change
ValidateOwnersConfigAllFiles(db, fs) ==
  IF LoadDataNeededForRaises(db, fs) THEN InvalidOwnersConfig ELSE "ok"

\* DepotToolsClient.ValidateOwnersConfig, `fs` the files of the current
\* revision of the change
ValidateOwnersConfig(db, fs) ==
  IF LoadDataNeededForRaises(db, {f \in fs : Basename(f) = "OWNERS"})
  THEN InvalidOwnersConfig
  ELSE "ok"

\* ---- arguments
DirChain == <<"bar", "everyone", "more">>

\* deepest directory of the checkout
MaxDepth == 2

Dirs == {SubSeq(DirChain, 1, d) : d \in 0..MaxDepth}

RepoFiles == {Append(d, "OWNERS") : d \in Dirs} \cup {Append(d, "foo.txt") : d \in Dirs}

OwnersFileStates == {"absent", "valid", "noparent", "invalid"}

InitValidate ==
  /\ pc = "start"
  /\ IdleReorder
  /\ IdleRemote
  /\ owners_files \in [Dirs -> OwnersFileStates]
  /\ change_files \in SUBSET RepoFiles
  /\ validated = "none"
  /\ distance_by_owner = <<>>
  /\ jitter = <<>>
  /\ listed = <<>>
  /\ IdleBatch
  /\ IdleOwners
  /\ IdleCluster
  /\ IdlePlan

DoValidateOwnersConfig ==
  /\ pc = "start"
  /\ pc' = "ValidateOwnersConfig"
  /\ validated' = ValidateOwnersConfig(owners_files, change_files)
  /\ UNCHANGED <<reorderVars, remoteVars, owners_files, change_files, listVars, batchVars,
                 ownersVars, clusterVars, planVars>>

NextValidate == DoValidateOwnersConfig

SpecValidate == InitValidate /\ [][NextValidate]_vars

\* ---- DepotToolsClient.ListOwnersForFile
\* random.random() is a multiple of 1/JitterSteps in [0, 1); a sort key is
\* counted in the same unit
JitterSteps == 4

Jitters == 0..(JitterSteps - 1)

\* distance + random.random() in floating point: the sum of a distance of at
\* least 1 and the largest value below 1 rounds up to the next integer
FloatAdd(distance, r) ==
  IF distance >= 1 /\ r = JitterSteps - 1
  THEN (distance + 1) * JitterSteps
  ELSE distance * JitterSteps + r

\* A key whose random part ranges over [0, 2)
KeyWideJitter(entry, r) == entry.distance * JitterSteps + 2 * r

\* key=lambda o: distance_by_owner[o][0][1] + random.random()
Key(entry, r) == FloatAdd(entry.distance, r)

\* sorted(distance_by_owner, key=...): a stable sort of the owners, in the
\* insertion order of the dict, by their key
RECURSIVE InsertByKey(_, _, _)
InsertByKey(sorted, entry, r) ==
  IF sorted = <<>> THEN <<entry>>
  ELSE IF Key(entry, r[entry.owner]) < Key(Head(sorted), r[Head(sorted).owner])
  THEN <<entry>> \o sorted
  ELSE <<Head(sorted)>> \o InsertByKey(Tail(sorted), entry, r)

RECURSIVE SortedByKey(_, _)
SortedByKey(entries, r) ==
  IF entries = <<>> THEN <<>>
  ELSE InsertByKey(SortedByKey(SubSeq(entries, 1, Len(entries) - 1), r),
                   entries[Len(entries)], r)

DepotToolsListOwnersForFile(entries, r) ==
  LET sorted == SortedByKey(entries, r)
  IN [i \in DOMAIN sorted |-> sorted[i].owner]

\* ---- arguments
\* owners of the mock repository
DbOwners == {"*", "missing@example.com", "approver@example.com"}

\* largest distance between a path and an OWNERS file
MaxDistance == 2

\* all_possible_owners([path], None): each owner once, with its distance,
\* the owners of the nearest directory first
PossibleOwners ==
  {es \in SeqUpTo([owner : DbOwners, distance : 1..MaxDistance],
                  Cardinality(DbOwners)) :
     /\ \A i, j \in DOMAIN es : i < j =>
          es[i].owner # es[j].owner /\ es[i].distance <= es[j].distance}

InitListOwners ==
  /\ pc = "start"
  /\ IdleReorder
  /\ IdleRemote
  /\ distance_by_owner \in PossibleOwners
  /\ jitter = <<>>
  /\ listed = <<>>
  /\ owners_files = <<>>
  /\ change_files = {}
  /\ validated = "none"
  /\ IdleBatch
  /\ IdleOwners
  /\ IdleCluster
  /\ IdlePlan

DoListOwnersForFile ==
  /\ pc = "start"
  /\ pc' = "ListOwnersForFile"
  /\ \E r \in [{distance_by_owner[i].owner : i \in DOMAIN distance_by_owner}
                 -> Jitters] :
       /\ jitter' = r
       /\ listed' = DepotToolsListOwnersForFile(distance_by_owner, r)
  /\ UNCHANGED <<reorderVars, remoteVars, distance_by_owner, validateVars, batchVars,
                 ownersVars, clusterVars, planVars>>

NextListOwners == DoListOwnersForFile

SpecListOwners == InitListOwners /\ [][NextListOwners]_vars

(***************************************************************************)
(* owners_client: OwnersClient.BatchListOwners.  One lookup task per path  *)
(* runs on a pool of threads; the pairs are collected as the tasks finish. *)
(***************************************************************************)
\* threads of the pool
PoolSize == 2

\* the directory whose rules a lookup needs
DirOf(path) == IF path \in {"a", "b"} THEN "x" ELSE "y"

\* The task pairs its path with the owners of the first path
LookupFirstPath(ps, i) == <<ps[i], ListOwnersForFile(ps[1])>>

\* lambda p: (p, self.ListOwnersForFile(project, branch, p))
Lookup(ps, i) == <<ps[i], ListOwnersForFile(ps[i])>>

\* dict(pairs): a later pair replaces an earlier one with the same key
Dict(pairs) ==
  [k \in {pairs[i][1] : i \in DOMAIN pairs} |->
     pairs[Max({i \in DOMAIN pairs : pairs[i][1] = k})][2]]

Running == {i \in DOMAIN task : task[i] \in {"lookup", "populating"}}

\* ---- arguments
\* most paths in a batch
MaxBatch == 2

BatchRankings == {<<>>, <<"alice">>, <<"bob", "alice">>}

InitBatch ==
  /\ pc = "start"
  /\ IdleReorder
  /\ IdleRemote
  /\ paths \in SeqUpTo(PathNames, MaxBatch)
  /\ owners_by_path \in [Range(paths) -> BatchRankings]
  /\ task = [i \in DOMAIN paths |-> "queued"]
  /\ cache = {}
  /\ results = <<>>
  /\ batch = <<>>
  /\ approvers = {}
  /\ reviewers = {}
  /\ status = <<>>
  /\ suggested = None
  /\ owners = <<>>
  /\ num_owners = 0
  /\ combos = <<>>
  /\ owners_files = <<>>
  /\ change_files = {}
  /\ validated = "none"
  /\ distance_by_owner = <<>>
  /\ jitter = <<>>
  /\ listed = <<>>
  /\ IdleCluster
  /\ IdlePlan

batchOthers == <<reorderVars, remoteVars, paths, owners_by_path, approvers, reviewers, status, suggested,
                 owners, num_owners, combos, validateVars, listVars,
                 clusterVars, planVars>>

\* a free thread of the pool takes the lookup of a path
StartTask(i) ==
  /\ pc = "start"
  /\ task[i] = "queued"
  /\ Cardinality(Running) < PoolSize
  /\ task' = [task EXCEPT ![i] = "lookup"]
  /\ UNCHANGED <<pc, cache, results, batch, batchOthers>>

\* the lookup finds the rules of its directory not loaded and starts to load
\* them into the database; nothing is locked
BeginPopulate(i) ==
  /\ task[i] = "lookup"
  /\ DirOf(paths[i]) \notin cache
  /\ task' = [task EXCEPT ![i] = "populating"]
  /\ UNCHANGED <<pc, cache, results, batch, batchOthers>>

\* the rules of the directory are in the database
EndPopulate(i) ==
  /\ task[i] = "populating"
  /\ cache' = cache \cup {DirOf(paths[i])}
  /\ task' = [task EXCEPT ![i] = "lookup"]
  /\ UNCHANGED <<pc, results, batch, batchOthers>>

\* the task returns its pair, which imap_unordered yields at once
FinishTask(i) ==
  /\ task[i] = "lookup"
  /\ DirOf(paths[i]) \in cache
  /\ results' = Append(results, Lookup(paths, i))
  /\ task' = [task EXCEPT ![i] = "done"]
  /\ UNCHANGED <<pc, cache, batch, batchOthers>>

\* every pair has been yielded: BatchListOwners returns the dict
ReturnBatch ==
  /\ pc = "start"
  /\ \A i \in DOMAIN task : task[i] = "done"
  /\ pc' = "BatchListOwners"
  /\ batch' = Dict(results)
  /\ UNCHANGED <<task, cache, results, batchOthers>>

NextBatch ==
  \/ \E i \in DOMAIN task : StartTask(i)
  \/ \E i \in DOMAIN task : BeginPopulate(i)
  \/ \E i \in DOMAIN task : EndPopulate(i)
  \/ \E i \in DOMAIN task : FinishTask(i)
  \/ ReturnBatch

SpecBatch == InitBatch /\ [][NextBatch]_vars

(***************************************************************************)
(* DepotToolsClient.GetChangeApprovalStatus.  The change is the JSON that  *)
(* gerrit_util.GetChange returns: its REVIEWER accounts, the Code-Review   *)
(* label with the values it defines and the votes cast, and the files of   *)
(* each revision.                                                          *)
(***************************************************************************)
\* the texts Gerrit gives a label's values, lowest first
LabelText == <<"-2", "-1", " 0", "+1", "+2">>

\* int(v): the number a label text stands for
ParseInt(v) == IndexOf(v, LabelText) - 3

\* Approvers are the accounts that cast a positive vote
GetChangeApprovalStatusAnyPositive(d) ==
  LET revs == {d.reviewers.REVIEWER[i].email : i \in DOMAIN d.reviewers.REVIEWER}
      label == d.labels["Code-Review"]
      apprs == {label.all[i].email :
                  i \in {j \in DOMAIN label.all : label.all[j].value > 0}}
      fs == d.revisions[d.current_revision].files
  IN [approvers |-> apprs, reviewers |-> revs,
      status |-> GetFilesApprovalStatus(fs, apprs, revs)]

\* reviewers = [r['email'] for r in data['reviewers']['REVIEWER']]
\* max_value = max(int(v) for v in label['values'])
\* approvers = [v['email'] for v in label['all'] if v['value'] == max_value]
\* files = data['revisions'][data['current_revision']]['files']
GetChangeApprovalStatus(d) ==
  LET revs == {d.reviewers.REVIEWER[i].email : i \in DOMAIN d.reviewers.REVIEWER}
      label == d.labels["Code-Review"]
      max_value == Max({ParseInt(v) : v \in label.values})
      apprs == {label.all[i].email :
                  i \in {j \in DOMAIN label.all : label.all[j].value = max_value}}
      fs == d.revisions[d.current_revision].files
  IN [approvers |-> apprs, reviewers |-> revs,
      status |-> GetFilesApprovalStatus(fs, apprs, revs)]

\* ---- the changes a run can be given
\* most files in a revision of the change
MaxChangeFiles == 1

\* the ranges a project gives Code-Review
LabelRanges == { {"-1", " 0", "+1"}, {"-2", "-1", " 0", "+1", "+2"} }

AccountOrder == <<"alice", "bob">>

\* the accounts of S, in the order Gerrit lists them
Listed(S) == SelectSeq(AccountOrder, LAMBDA a : a \in S)

\* one vote per account that voted, within the label's range
Votes(values) ==
  UNION {[S -> {ParseInt(v) : v \in values}] : S \in SUBSET Accounts}

ChangeFiles == {ps \in SeqUpTo(PathNames, MaxChangeFiles) : NamedInOrder(ps) /\ NoRepeat(ps)}

Change(fs, revs, values, votes) ==
  [reviewers |-> [REVIEWER |-> [i \in DOMAIN Listed(revs) |->
                                  [email |-> Listed(revs)[i]]]],
   labels |-> [l \in {"Code-Review"} |->
                 [values |-> values,
                  all |-> [i \in DOMAIN Listed(DOMAIN votes) |->
                             [email |-> Listed(DOMAIN votes)[i],
                              value |-> votes[Listed(DOMAIN votes)[i]]]]]],
   current_revision |-> "cur",
   revisions |-> [r \in {"old", "cur"} |->
                    [files |-> IF r = "cur" THEN fs ELSE <<>>]]]

InitChange ==
  /\ pc = "start"
  /\ IdleReorder
  /\ \E fs \in ChangeFiles, revs \in SUBSET Accounts, values \in LabelRanges :
       \E votes \in Votes(values) :
         /\ data = Change(fs, revs, values, votes)
         /\ owners_by_path \in [Range(fs) -> RankingsOver(OwnersEntries)]
  /\ paths = <<>>
  /\ git_branches = {}
  /\ upload_files = <<>>
  /\ git_run = <<>>
  /\ cmd_upload = <<>>
  /\ Idle

DoGetChangeApprovalStatus ==
  /\ pc = "start"
  /\ pc' = "GetChangeApprovalStatus"
  /\ LET r == GetChangeApprovalStatus(data)
     IN /\ approvers' = r.approvers
        /\ reviewers' = r.reviewers
        /\ status' = r.status
  /\ UNCHANGED <<reorderVars, data, git_branches, upload_files, git_run,
                 cmd_upload, paths, owners_by_path, suggested, owners, num_owners, combos,
                 clusterVars, planVars, dbVars>>

NextChange == DoGetChangeApprovalStatus

SpecChange == InitChange /\ [][NextChange]_vars

(***************************************************************************)
(* split_cl.UploadCl: the git commands and the upload of one CL of the     *)
(* plan.  pc is the statement UploadCl has reached.                        *)
(***************************************************************************)
refactor_branch == "branch_to_upload"

refactor_branch_upstream == "upstream_branch"

\* CreateBranchName(prefix, files): one split branch per prefix and file list
CreateBranchName(prefix, fs) == <<prefix, fs, "split">>

\* The split branch is never found among the local branches
BranchExistsNever(branches, name) == FALSE

\* CreateBranchForOneCl: the split branch is among git_common.branches()
BranchExists(branches, name) == name \in branches

\* os.path.join(abs_repository_path, f)
AbsPath(f) == <<"/", f>>

\* one git_common.run call
GitRun(cmd, args) == [cmd |-> cmd, args |-> args]

deleted_files(fs) ==
  LET ds == SelectSeq(fs, LAMBDA e : e[1] = "D")
  IN [i \in DOMAIN ds |-> AbsPath(ds[i][2])]

modified_files(fs) ==
  LET ms == SelectSeq(fs, LAMBDA e : e[1] # "D")
  IN [i \in DOMAIN ms |-> AbsPath(ms[i][2])]

upload_args ==
  <<"-f", "-r", "reviewer1@gmail.com,reviewer2@gmail.com", "--cq-dry-run",
    "--send-mail", "--enable-auto-submit", "--topic=topic">>

\* ---- the CLs a run can upload
UploadCatalog == <<"bar/a.cc", "foo/b.cc", "baz/c.cc">>

FileActions == {"M", "A", "D"}

\* most files in one CL
MaxUploadFiles == 2

UploadFileLists ==
  {fs \in SeqUpTo(FileActions \X Range(UploadCatalog), MaxUploadFiles) :
     /\ fs # <<>>
     /\ \A i, j \in DOMAIN fs : i # j => fs[i][2] # fs[j][2]}

InitUpload ==
  /\ pc = "start"
  /\ IdleReorder
  /\ upload_files \in UploadFileLists
  /\ git_branches \in
       SUBSET {"branch0", CreateBranchName(refactor_branch, upload_files)}
  /\ git_run = <<>>
  /\ cmd_upload = <<>>
  /\ data = <<>>
  /\ paths = <<>>
  /\ owners_by_path = <<>>
  /\ Idle

uploadOthers == <<reorderVars, data, git_branches, upload_files, ownersVars, clusterVars,
                  planVars, dbVars>>

\* if not CreateBranchForOneCl(...): return
SkipExistingBranch ==
  /\ pc = "start"
  /\ BranchExists(git_branches,
                  CreateBranchName(refactor_branch, upload_files))
  /\ pc' = "skipped"
  /\ UNCHANGED <<git_run, cmd_upload, uploadOthers>>

\* git.run('checkout', '-t', upstream, '-b', branch_name)
CreateBranchForOneCl ==
  /\ pc = "start"
  /\ ~BranchExists(git_branches,
                   CreateBranchName(refactor_branch, upload_files))
  /\ pc' = "branch"
  /\ git_run' =
       Append(git_run,
              GitRun("checkout",
                     <<"-t", refactor_branch_upstream, "-b",
                       CreateBranchName(refactor_branch, upload_files)>>))
  /\ UNCHANGED <<cmd_upload, uploadOthers>>

\* git.run('rm', ...) for the deleted files
RemoveDeleted ==
  /\ pc = "branch"
  /\ pc' = "removed"
  /\ git_run' =
       IF deleted_files(upload_files) = <<>> THEN git_run
       ELSE Append(git_run, GitRun("rm", deleted_files(upload_files)))
  /\ UNCHANGED <<cmd_upload, uploadOthers>>

\* git.run('checkout', refactor_branch, '--', ...) for the other files
CheckoutModified ==
  /\ pc = "removed"
  /\ pc' = "checked out"
  /\ git_run' =
       IF modified_files(upload_files) = <<>> THEN git_run
       ELSE Append(git_run,
                   GitRun("checkout",
                          <<refactor_branch, "--">>
                            \o modified_files(upload_files)))
  /\ UNCHANGED <<cmd_upload, uploadOthers>>

\* git.run('commit', '-F', tmp_file)
Commit ==
  /\ pc = "checked out"
  /\ pc' = "committed"
  /\ git_run' = Append(git_run, GitRun("commit", <<"-F", "temporary_file0">>))
  /\ UNCHANGED <<cmd_upload, uploadOthers>>

\* cmd_upload(upload_args)
Upload ==
  /\ pc = "committed"
  /\ pc' = "uploaded"
  /\ cmd_upload' = Append(cmd_upload, upload_args)
  /\ UNCHANGED <<git_run, uploadOthers>>

NextUpload ==
  \/ SkipExistingBranch
  \/ CreateBranchForOneCl
  \/ RemoveDeleted
  \/ CheckoutModified
  \/ Commit
  \/ Upload

SpecUpload == InitUpload /\ [][NextUpload]_vars

(***************************************************************************)
(* Properties of the owners operations                                     *)
(***************************************************************************)
\* Stated from the arguments alone, not from the dictionaries SuggestOwners
\* builds
OwnersOf(path) == Range(owners_by_path[path])

AllOwners == UNION {OwnersOf(p) : p \in Range(paths)}

OwnedBy(S) == {p \in Range(paths) : OwnersOf(p) \cap S # {}}

CoversAll(S) == Range(paths) \subseteq OwnedBy(S)

EveryPathOwned == \A p \in Range(paths) : OwnersOf(p) # {}

\* C1: when every requested path has at least one owner, SuggestOwners
\* returns owners that together own every requested path.
C1_CoverLaw ==
  (pc = "SuggestOwners" /\ EveryPathOwned)
    => (~suggested.none /\ CoversAll(Range(suggested.selected)))

\* C3: every requested path gets exactly one status: APPROVED when one of its
\* owners is an approver, else PENDING when one of its owners is a reviewer,
\* else INSUFFICIENT_REVIEWERS.
C3_ApprovalStatus ==
  pc = "GetFilesApprovalStatus" =>
    /\ DOMAIN status = Range(paths)
    /\ \A p \in Range(paths) :
         LET approved == \E o \in approvers : o \in OwnersOf(p)
             reviewed == \E o \in reviewers : o \in OwnersOf(p)
         IN /\ status[p] \in {APPROVED, PENDING, INSUFFICIENT_REVIEWERS}
            /\ status[p] = APPROVED <=> approved
            /\ status[p] = PENDING <=> (~approved /\ reviewed)

\* a path owned by both an approver and a reviewer has been classified
C3_Witness ==
  /\ pc = "GetFilesApprovalStatus"
  /\ \E p \in Range(paths) :
       /\ OwnersOf(p) \cap approvers # {}
       /\ OwnersOf(p) \cap reviewers # {}
       /\ OwnersOf(p) \cap approvers # OwnersOf(p) \cap reviewers
  /\ \E p \in Range(paths) : status[p] = PENDING

\* C5: with fewer than two distinct owners over the requested paths,
\* SuggestOwners returns exactly those owners.
C5_TrivialCase ==
  (pc = "SuggestOwners" /\ Cardinality(AllOwners) < 2)
    => /\ ~suggested.none
       /\ Range(suggested.selected) = AllOwners
       /\ Len(suggested.selected) = Cardinality(AllOwners)

\* a single owner stands over several requested paths and has been returned
C5_Witness ==
  /\ pc = "SuggestOwners"
  /\ Cardinality(AllOwners) = 1
  /\ Cardinality(Range(paths)) >= 2
  /\ Len(suggested.selected) = 1

\* C6: a returned combination of k >= 2 owners covers the request, no set of
\* at least 2 and fewer than k owners does, and no combination enumerated
\* before it at size k does.
C6_MinimalCover ==
  (pc = "SuggestOwners" /\ ~suggested.none /\ Len(suggested.selected) >= 2)
    => LET k == Len(suggested.selected)
           cs == _owner_combinations(SortedOwners(paths), k)
       IN /\ CoversAll(Range(suggested.selected))
          /\ \A S \in SUBSET AllOwners :
               (2 <= Cardinality(S) /\ Cardinality(S) < k) => ~CoversAll(S)
          /\ \E i \in DOMAIN cs :
               /\ cs[i] = suggested.selected
               /\ \A j \in 1..(i - 1) : ~CoversAll(Range(cs[j]))

\* the search went past the pairs and returned three of four owners
C6_Witness ==
  /\ pc = "SuggestOwners"
  /\ ~suggested.none
  /\ Len(suggested.selected) = 3
  /\ Cardinality(AllOwners) = 4

\* Position tuples compared lexicographically
LexLess(s, t) ==
  \E i \in DOMAIN s :
    /\ i \in DOMAIN t
    /\ s[i] < t[i]
    /\ \A j \in 1..(i - 1) : s[j] = t[j]

Positions(t) == [i \in DOMAIN t |-> IndexOf(t[i], owners)]

\* C7: _owner_combinations yields each size-k combination once, members
\* from highest list position to lowest, in increasing order of the highest
\* position and then of the remaining positions.
C7_CombinationOrder ==
  pc = "_owner_combinations" =>
    /\ \A i \in DOMAIN combos :
         /\ Len(combos[i]) = num_owners
         /\ \A a, b \in DOMAIN combos[i] :
              a < b => Positions(combos[i])[a] > Positions(combos[i])[b]
    /\ {Range(combos[i]) : i \in DOMAIN combos}
         = {S \in SUBSET Range(owners) : Cardinality(S) = num_owners}
    /\ \A i, j \in DOMAIN combos : i # j => combos[i] # combos[j]
    /\ \A i \in 1..(Len(combos) - 1) :
         LexLess(Positions(combos[i]), Positions(combos[i + 1]))
    /\ (Len(owners) = 4 /\ num_owners = 2) =>
         combos = << <<owners[2], owners[1]>>,
                     <<owners[3], owners[1]>>, <<owners[3], owners[2]>>,
                     <<owners[4], owners[1]>>, <<owners[4], owners[2]>>,
                     <<owners[4], owners[3]>> >>

\* the pairs of a list of four owners have been enumerated
C7_Witness ==
  /\ pc = "_owner_combinations"
  /\ Len(owners) = 4
  /\ num_owners = 2
  /\ Len(combos) = 6

\* C8: a path owned by EVERYONE is APPROVED once there is any approver, and
\* otherwise PENDING once there is any reviewer.
C8_EveryoneMatches ==
  pc = "GetFilesApprovalStatus" =>
    \A p \in Range(paths) :
      EVERYONE \in OwnersOf(p) =>
        /\ approvers # {} => status[p] = APPROVED
        /\ (approvers = {} /\ reviewers # {}) => status[p] = PENDING

(***************************************************************************)
(* Properties of the clustering                                            *)
(***************************************************************************)
BinnedFiles == Flatten([i \in DOMAIN clusters |-> clusters[i].files])

\* C2: the bins of ClusterFiles hold every input file exactly once.
C2_Partition ==
  pc = "ClusterFiles" =>
    /\ Len(BinnedFiles) = Len(files)
    /\ Range(BinnedFiles) = Range(files)
    /\ NoRepeat(BinnedFiles)

\* files at the root, in a top-level directory and deeper were spread over
\* several bins, one of them holding more than one file
C2_Witness ==
  /\ pc = "ClusterFiles"
  /\ Len(clusters) >= 3
  /\ \E i \in DOMAIN clusters : Len(clusters[i].files) >= 2
  /\ \E i, j, k \in DOMAIN files :
       Len(files[i]) = 1 /\ Len(files[j]) = 2 /\ Len(files[k]) > 3

\* every node of a trie
RECURSIVE Nodes(_)
Nodes(node) ==
  {node} \cup UNION {Nodes(node.subdirectories[i]) :
                       i \in DOMAIN node.subdirectories}

\* the files pending at a directory once its subdirectories are clustered
PendingAt(node) ==
  LET pool == ClusterDirectory(node, min_files, max_files).pool
  IN Flatten([i \in DOMAIN pool |-> pool[i].files])

IsRootBin(b) == b.prefixes = << <<>> >>

\* the files of the bin all sit directly in one directory
SameDirectory(b) ==
  \A i, j \in DOMAIN b.files :
    SubSeq(b.files[i], 1, Len(b.files[i]) - 1)
      = SubSeq(b.files[j], 1, Len(b.files[j]) - 1)

\* no other bin could join bin i without the two exceeding max_files
CannotMerge(i) ==
  \A j \in DOMAIN clusters :
    j # i => Len(clusters[i].files) + Len(clusters[j].files) > max_files

\* C9 as stated: a bin that is not the root's has between min_files and
\* max_files files, unless it cannot be merged further: it is an oversized
\* directory that cannot be split, or no other bin could join it.
C9_BoundInvariant ==
  pc = "ClusterFiles" =>
    \A i \in DOMAIN clusters :
      LET b == clusters[i]
          n == Len(b.files)
      IN \/ IsRootBin(b)
         \/ (min_files <= n /\ n <= max_files)
         \/ (n > max_files /\ SameDirectory(b))
         \/ (n < min_files /\ CannotMerge(i))

\* C9 as amended: every bin has from 1 to max_files files; a bin of fewer
\* than min_files files is the whole pending pool of a directory without a
\* parent (the root or a top-level directory), or one of the bins into
\* which a pending pool of more than max_files files was packed.
C9_BoundAmended ==
  pc = "ClusterFiles" =>
    \A i \in DOMAIN clusters :
      LET b == clusters[i]
          n == Len(b.files)
      IN /\ 1 <= n
         /\ n <= max_files
         /\ n < min_files =>
              \E d \in Nodes(trie) :
                \/ ~d.has_parent /\ b.files = PendingAt(d)
                \/ /\ Len(PendingAt(d)) > max_files
                   /\ Range(b.files) \subseteq Range(PendingAt(d))

\* a bin below min_files came out of packing the pool of a directory that
\* has a parent, next to a bin of a top-level directory below min_files
C9_Witness ==
  /\ pc = "ClusterFiles"
  /\ \E i \in DOMAIN clusters :
       /\ Len(clusters[i].files) < min_files
       /\ \A j \in DOMAIN clusters[i].prefixes :
            Len(clusters[i].prefixes[j]) > 1
  /\ \E i \in DOMAIN clusters :
       /\ Len(clusters[i].files) < min_files
       /\ \E j \in DOMAIN clusters[i].prefixes :
            Len(clusters[i].prefixes[j]) = 1

C10_FatalValidation ==
  pc = "LoadSplittingFromFile" =>
    ((InTwoBlocks(cl_infos) \/ \E f \in PlanFiles(cl_infos) : f \notin files_on_disk)
       => (loaded.error /\ loaded.cl_infos = <<>>))

\* the only fault of the refused plan is an entry whose path is expected
\* under another action
C10_Witness ==
  /\ pc = "LoadSplittingFromFile"
  /\ loaded.error
  /\ ~InTwoBlocks(cl_infos)
  /\ \A f \in PlanFiles(cl_infos) : \E e \in files_on_disk : e[2] = f[2]
  /\ \E f \in PlanFiles(cl_infos) : f \notin files_on_disk

\* C11: an empty plan, a reviewer that does not look like an email and
\* expected files missing from the plan are warnings only: when no file is in
\* two blocks and every entry is expected, the plan is returned without
\* error, with one warning for an empty plan, one per offending reviewer and
\* one for missing files, and no other warning.
Fatal == InTwoBlocks(cl_infos) \/ ~(PlanFiles(cl_infos) \subseteq files_on_disk)

BadReviewers == SelectSeq(AllReviewers(cl_infos), LAMBDA r : ~LooksLikeEmail(r))

C11_WarningsOnly ==
  (pc = "LoadSplittingFromFile" /\ ~Fatal) =>
    /\ ~loaded.error
    /\ loaded.cl_infos = cl_infos
    /\ SelectSeq(loaded.warnings, LAMBDA w : w = "empty plan")
         = (IF cl_infos = <<>> THEN <<"empty plan">> ELSE <<>>)
    /\ SelectSeq(loaded.warnings, LAMBDA w : w = "missing files")
         = (IF files_on_disk \ PlanFiles(cl_infos) # {} THEN <<"missing files">>
            ELSE <<>>)
    /\ SelectSeq(loaded.warnings,
                 LAMBDA w : w \notin {"empty plan", "missing files"})
         = BadReviewers

\* a plan of two blocks with two offending reviewers and an expected file
\* that no block names has been loaded
C11_Witness ==
  /\ pc = "LoadSplittingFromFile"
  /\ ~Fatal
  /\ Len(cl_infos) = 2
  /\ Len(BadReviewers) = 2
  /\ PlanFiles(cl_infos) # {}
  /\ files_on_disk \ PlanFiles(cl_infos) # {}
  /\ Len(loaded.warnings) = 3

(***************************************************************************)
(* Properties of DepotToolsClient                                          *)
(***************************************************************************)
ListedOwnersFiles == {f \in change_files : Basename(f) = "OWNERS"}

Parses(f) == owners_files[Dirname(f)] # "invalid"

\* the directories whose OWNERS file is read for a listed OWNERS file
RECURSIVE ReadFor(_)
ReadFor(dirpath) ==
  {dirpath} \cup
    (IF dirpath = <<>> \/ owners_files[dirpath] \in {"noparent", "invalid"}
     THEN {} ELSE ReadFor(Dirname(dirpath)))

DistanceOf(owner) ==
  LET i == CHOOSE k \in DOMAIN distance_by_owner :
             distance_by_owner[k].owner = owner
  IN distance_by_owner[i].distance

\* C13: ListOwnersForFile returns each owner of the path exactly once, and
\* for every jitter an owner at a smaller distance precedes every owner at a
\* larger distance.
C13_SortedByDistance ==
  pc = "ListOwnersForFile" =>
    /\ NoRepeat(listed)
    /\ Range(listed) = {distance_by_owner[i].owner : i \in DOMAIN distance_by_owner}
    /\ \A i, j \in DOMAIN listed :
         DistanceOf(listed[i]) < DistanceOf(listed[j]) => i < j

\* two owners at the same distance come out against their insertion order
\* and before a farther owner that drew a smaller jitter
C13_Witness ==
  /\ pc = "ListOwnersForFile"
  /\ Len(listed) = 3
  /\ DistanceOf(listed[1]) = DistanceOf(listed[2])
  /\ listed[1] = distance_by_owner[2].owner
  /\ DistanceOf(listed[3]) > DistanceOf(listed[2])
  /\ jitter[listed[3]] < jitter[listed[1]]

\* C14: BatchListOwners returns a map whose keys are exactly the requested
\* paths and whose value for each path is ListOwnersForFile of that path, in
\* whatever order the tasks of the pool ran and finished.
C14_BatchEqualsSequential ==
  pc = "BatchListOwners" =>
    /\ DOMAIN batch = Range(paths)
    /\ \A p \in Range(paths) : batch[p] = ListOwnersForFile(p)

\* two paths with different owners were looked up and the pair of the second
\* path was yielded first
C14_Witness ==
  /\ pc = "BatchListOwners"
  /\ Len(paths) = 2
  /\ paths[1] # paths[2]
  /\ owners_by_path[paths[1]] # owners_by_path[paths[2]]
  /\ results[1][1] = paths[2]

Unowned == {p \in Range(paths) : OwnersOf(p) = {}}

C16_EmptyRanking ==
  pc = "GetFilesApprovalStatus" =>
    /\ \A p \in Unowned : status[p] = INSUFFICIENT_REVIEWERS
    /\ LET owned == SelectSeq(paths, LAMBDA p : p \notin Unowned)
           alone == GetFilesApprovalStatus(owned, approvers, reviewers)
       IN \A p \in Range(owned) : status[p] = alone[p]

\* a request with an unowned path and an approved path has been classified,
\* with approvers and reviewers present
C16_Witness ==
  /\ pc = "GetFilesApprovalStatus"
  /\ Unowned # {}
  /\ approvers # {}
  /\ reviewers # {}
  /\ \E p \in Range(paths) : status[p] = APPROVED
  /\ \E p \in Unowned : status[p] = INSUFFICIENT_REVIEWERS

\* C17: SuggestOwners ends without a covering combination (it returns None)
\* only if some requested path has no owner.
C17_NoCoverOnlyIfUnowned ==
  (pc = "SuggestOwners" /\ suggested.none) =>
    \E p \in Range(paths) : OwnersOf(p) = {}

C19_MergeWhenFits ==
  pc = "ClusterFiles" =>
    \A d \in Nodes(trie) :
      (d.has_parent /\ min_files <= Len(ToList(d))
                    /\ Len(ToList(d)) <= max_files)
        => \E i \in DOMAIN clusters :
             Range(ToList(d)) \subseteq Range(clusters[i].files)

\* C19 as amended: the pending pool of a directory (its direct files and the
\* files handed up by subdirectories whose own pool was below min_files) is
\* one bin whenever it is not empty, has at most max_files files and has
\* min_files files or more or belongs to a directory without a parent.
C19_PoolMerged ==
  pc = "ClusterFiles" =>
    \A d \in Nodes(trie) :
      LET pool == PendingAt(d)
      IN (/\ pool # <<>>
          /\ Len(pool) <= max_files
          /\ (Len(pool) >= min_files \/ ~d.has_parent))
         => Cardinality({i \in DOMAIN clusters : clusters[i].files = pool}) = 1

\* a directory with a parent was binned with its direct files and the files
\* a subdirectory handed up, and another directory whose files would fit in
\* one bin was left in several
C19_Witness ==
  /\ pc = "ClusterFiles"
  /\ \E d \in Nodes(trie) :
       /\ d.has_parent
       /\ d.files # <<>>
       /\ Len(PendingAt(d)) > Len(d.files)
       /\ \E i \in DOMAIN clusters : clusters[i].files = PendingAt(d)
  /\ \E e \in Nodes(trie) :
       /\ min_files <= Len(ToList(e))
       /\ Len(ToList(e)) <= max_files
       /\ \A i \in DOMAIN clusters :
            ~(Range(ToList(e)) \subseteq Range(clusters[i].files))

\* each node hangs below its parent by one more component, and keeps the
\* files of its own directory
PrefixesAreFullPaths ==
  /\ trie.prefix = <<>>
  /\ \A n \in Nodes(trie) :
       /\ \A i \in DOMAIN n.subdirectories :
            /\ Len(n.subdirectories[i].prefix) = Len(n.prefix) + 1
            /\ SubSeq(n.subdirectories[i].prefix, 1, Len(n.prefix)) = n.prefix
       /\ \A i, j \in DOMAIN n.subdirectories :
            n.subdirectories[i].prefix = n.subdirectories[j].prefix => i = j
       /\ \A k \in DOMAIN n.files : Dirname(n.files[k]) = n.prefix

\* C20 as stated: after AddFiles has_parent is false for the root and true
\* for every other node, and every prefix is the full path from the root.
C20_HasParentBelowRoot ==
  pc = "AddFiles" =>
    /\ \A n \in Nodes(trie) : n.has_parent <=> n.prefix # <<>>
    /\ PrefixesAreFullPaths

\* C20 as amended: after AddFiles has_parent is false for the root and for
\* the top-level directories, true for every deeper node, and every prefix
\* is the full path from the root.
C20_HasParentAmended ==
  pc = "AddFiles" =>
    /\ \A n \in Nodes(trie) : n.has_parent <=> Len(n.prefix) > 1
    /\ PrefixesAreFullPaths
    /\ Range(ToList(trie)) = Range(files)

\* a trie with files at the root, in a top-level directory and two levels
\* deeper has been built
C20_Witness ==
  /\ pc = "AddFiles"
  /\ trie.files # <<>>
  /\ \E n \in Nodes(trie) : Len(n.prefix) = 1 /\ n.files # <<>> /\ ~n.has_parent
  /\ \E n \in Nodes(trie) : Len(n.prefix) = 3 /\ n.files # <<>> /\ n.has_parent

\* C21: no bin of ClusterFiles holds both a file of the root and a file of a
\* directory, whatever min_files and max_files, and every file of the root
\* is in a bin.
AtRoot(f) == Len(f) = 1

C21_RootKeptApart ==
  pc = "ClusterFiles" =>
    /\ \A i \in DOMAIN clusters :
         \A j, k \in DOMAIN clusters[i].files :
           AtRoot(clusters[i].files[j]) <=> AtRoot(clusters[i].files[k])
    /\ \A j \in DOMAIN files :
         AtRoot(files[j]) =>
           \E i \in DOMAIN clusters : files[j] \in Range(clusters[i].files)

\* with min_files above the number of files, a file of the root and a file
\* directly in a top-level directory came out in two bins
C21_Witness ==
  /\ pc = "ClusterFiles"
  /\ min_files > Len(files)
  /\ \E j \in DOMAIN files : AtRoot(files[j])
  /\ \E j \in DOMAIN files : Len(files[j]) = 2
  /\ Len(clusters) >= 2
  /\ \E i \in DOMAIN clusters : \A j \in DOMAIN clusters[i].files :
       AtRoot(clusters[i].files[j])

ScenarioD ==
  { <<"a", "b", "c.cc">>, <<"a", "b", "d.h">>, <<"a", "e", "f", "g", "h.hpp">>,
    <<"i", "j", "k.cc">>, <<"a", "l.cpp">>, <<"top.gn">> }

\* the bins as the test compares them: the set of each bin's files
FileGroups(bins) == {Range(bins[i].files) : i \in DOMAIN bins}

ABTogether ==
  { {<<"a", "b", "c.cc">>, <<"a", "b", "d.h">>} }
    \cup {{f} : f \in ScenarioD \ {<<"a", "b", "c.cc">>, <<"a", "b", "d.h">>}}

\* C23: Scenario D.  Over {a/b/c.cc, a/b/d.h, a/e/f/g/h.hpp, i/j/k.cc,
\* a/l.cpp, top.gn} ClusterFiles with min = 1, max = 1 yields six bins of one
\* file each, and with min = 1, max = 2 the two a/b files in one bin and every
\* other file alone.
C23_ScenarioD ==
  (pc = "ClusterFiles" /\ Range(files) = ScenarioD /\ min_files = 1) =>
    /\ max_files = 1 =>
         /\ Len(clusters) = 6
         /\ FileGroups(clusters) = {{f} : f \in ScenarioD}
    /\ max_files = 2 =>
         /\ Len(clusters) = 5
         /\ FileGroups(clusters) = ABTogether

C23_Witness ==
  /\ pc = "ClusterFiles"
  /\ Range(files) = ScenarioD
  /\ min_files = 1
  /\ max_files = 2
  /\ \E i \in DOMAIN clusters :
       Range(clusters[i].files) = {<<"a", "b", "c.cc">>, <<"a", "b", "d.h">>}

\* an owner's score: its best rank-index over the requested paths it owns
OwnerScore(o) ==
  Min({IndexOf(o, owners_by_path[p]) - 1 :
         p \in {q \in Range(paths) : o \in OwnersOf(q)}})

\* a set's score: the worst score of its members
SetScore(S) == Max({OwnerScore(o) : o \in S})

\* C24: among all covering combinations of the size it returns, SuggestOwners
\* returns one whose set score (the maximum over its members of the owner's
\* best rank-index over the requested paths) is the lowest.
C24_LowestScore ==
  (pc = "SuggestOwners" /\ ~suggested.none /\ suggested.selected # <<>>) =>
    \A T \in SUBSET AllOwners :
      (Cardinality(T) = Len(suggested.selected) /\ CoversAll(T))
        => SetScore(Range(suggested.selected)) <= SetScore(T)

C24_Witness ==
  /\ pc = "SuggestOwners"
  /\ ~suggested.none
  /\ Len(suggested.selected) = 2
  /\ CoversAll(Range(suggested.selected))
  /\ \E T \in SUBSET AllOwners :
       /\ Cardinality(T) = 2
       /\ CoversAll(T)
       /\ SetScore(T) > SetScore(Range(suggested.selected))

\* C25: when the requested paths have two or more distinct owners,
\* SuggestOwners never returns a single-owner result, even if one owner alone
\* owns every requested path.
C25_NeverSingleOwner ==
  (pc = "SuggestOwners" /\ Cardinality(AllOwners) >= 2)
    => (suggested.none \/ Len(suggested.selected) >= 2)

C25_Witness ==
  /\ pc = "SuggestOwners"
  /\ \E o \in AllOwners : CoversAll({o})
  /\ ~suggested.none
  /\ Len(suggested.selected) = 2

(***************************************************************************)
(* Properties of GetChangeApprovalStatus                                   *)
(***************************************************************************)
ReviewerAccounts ==
  {data.reviewers.REVIEWER[i].email : i \in DOMAIN data.reviewers.REVIEWER}

CodeReview == data.labels["Code-Review"]

\* the highest value the label defines
LabelMax == CHOOSE n \in {ParseInt(v) : v \in CodeReview.values} :
              \A v \in CodeReview.values : ParseInt(v) <= n

\* the accounts whose vote is v
VotedExactly(n) ==
  {a \in Accounts :
     \E i \in DOMAIN CodeReview.all :
       CodeReview.all[i].email = a /\ CodeReview.all[i].value = n}

VotedBelowMax == {a \in Accounts : \E n \in -2..(LabelMax - 1) : a \in VotedExactly(n)}

CurrentFiles == Range(data.revisions[data.current_revision].files)

\* C26: GetChangeApprovalStatus classifies the files of the current revision
\* with GetFilesApprovalStatus, with every REVIEWER account as a reviewer and
\* exactly the accounts whose Code-Review vote is the label's maximum as
\* approvers; a file owned only by a reviewer that voted below the maximum is
\* PENDING, never APPROVED.
C26_ChangeApproval ==
  pc = "GetChangeApprovalStatus" =>
    /\ reviewers = ReviewerAccounts
    /\ approvers = VotedExactly(LabelMax)
    /\ DOMAIN status = CurrentFiles
    /\ \A f \in CurrentFiles :
         status[f] =
           IF OwnersOf(f) \cap VotedExactly(LabelMax) # {} THEN APPROVED
           ELSE IF OwnersOf(f) \cap ReviewerAccounts # {} THEN PENDING
           ELSE INSUFFICIENT_REVIEWERS
    /\ \A f \in CurrentFiles :
         \A a \in VotedBelowMax \cap ReviewerAccounts :
           OwnersOf(f) = {a} => status[f] = PENDING

C26_Witness ==
  /\ pc = "GetChangeApprovalStatus"
  /\ LabelMax = 2
  /\ \E f \in CurrentFiles :
       \E a \in VotedExactly(1) \cap ReviewerAccounts :
         /\ OwnersOf(f) = {a}
         /\ status[f] = PENDING
  /\ VotedExactly(2) # {}

(***************************************************************************)
(* Properties of UploadCl                                                  *)
(***************************************************************************)
SplitBranch == CreateBranchName(refactor_branch, upload_files)

FilesWith(acts) ==
  LET es == SelectSeq(upload_files, LAMBDA e : e[1] \in acts)
  IN [i \in DOMAIN es |-> <<"/", es[i][2]>>]

\* the git commands of a full run, in order
ExpectedCommands ==
  <<[cmd |-> "checkout",
     args |-> <<"-t", refactor_branch_upstream, "-b", SplitBranch>>]>>
    \o (IF FilesWith({"D"}) = <<>> THEN <<>>
        ELSE <<[cmd |-> "rm", args |-> FilesWith({"D"})]>>)
    \o (IF FilesWith({"M", "A"}) = <<>> THEN <<>>
        ELSE <<[cmd |-> "checkout",
                args |-> <<refactor_branch, "--">> \o FilesWith({"M", "A"})]>>)
    \o <<[cmd |-> "commit", args |-> <<"-F", "temporary_file0">>]>>

IsPrefix(s, t) == Len(s) <= Len(t) /\ s = SubSeq(t, 1, Len(s))

\* C27: UploadCl is a no-op when the split branch of its file set already
\* exists: no git command is run and the upload command is never called.
\* Otherwise it runs checkout of a new branch tracking upstream, removal of
\* the deleted files, checkout of the added and modified files from the
\* source branch and commit, in this order, and then exactly one upload.
C27_UploadCl ==
  /\ SplitBranch \in git_branches => (git_run = <<>> /\ cmd_upload = <<>>)
  /\ IsPrefix(git_run, ExpectedCommands)
  /\ Len(cmd_upload) <= 1
  /\ cmd_upload # <<>> => git_run = ExpectedCommands
  /\ pc = "uploaded" => (git_run = ExpectedCommands /\ Len(cmd_upload) = 1)
  /\ (pc \notin {"start", "skipped"}) => SplitBranch \notin git_branches

C27_Witness ==
  /\ pc = "uploaded"
  /\ Len(cmd_upload) = 1
  /\ Len(git_run) = 4
  /\ upload_files = << <<"M", "bar/a.cc">>, <<"D", "foo/b.cc">> >>
  /\ git_run[2].cmd = "rm"

(***************************************************************************)
(* SuggestOwners and the shape of the request                              *)
(***************************************************************************)
\* C28 as stated: for fixed rankings, two calls whose path lists are
\* permutations of each other return the same owners.
C28_PermutationInsensitive ==
  pc = "SuggestOwnersTwice" =>
    /\ suggested_reordered.none = suggested.none
    /\ Range(suggested_reordered.selected) = Range(suggested.selected)

\* C28, amended: for fixed rankings two calls whose path lists are
\* permutations of each other agree on whether there is a result, on the
\* number of owners and on the set score; which owners of equal score are
\* returned depends on the order of the paths.
C28_PermutationAmended ==
  pc = "SuggestOwnersTwice" =>
    /\ suggested_reordered.none = suggested.none
    /\ Len(suggested_reordered.selected) = Len(suggested.selected)
    /\ suggested.selected # <<>> =>
         SetScore(Range(suggested_reordered.selected))
           = SetScore(Range(suggested.selected))

C28_Witness ==
  /\ pc = "SuggestOwnersTwice"
  /\ reordered # paths
  /\ ~suggested.none
  /\ ~suggested_reordered.none
  /\ Range(suggested_reordered.selected) # Range(suggested.selected)

\* the request with each path listed once, in the order of first mention
OncePerPath(ps) == AppendNew(<<>>, ps)

\* C29: SuggestOwners is insensitive to repeated paths: listing a path more
\* than once in the request gives the same result as listing it once.
C29_RepeatedPaths ==
  pc = "SuggestOwners" => suggested = SuggestOwners(OncePerPath(paths))

====
